---------------------------- MODULE Spec2Model ----------------------------
(***************************************************************************)
(* Model of src/index.js: the animated sun scene.                          *)
(*                                                                         *)
(* JavaScript numbers are modelled in fixed point: the integer n stands    *)
(* for the number n / Unit (Unit = 10000), so 0.0005 is 5, 1.5 is 15000    *)
(* and a render order of 0.5 is 5000.  Math.sin is computed by range       *)
(* reduction and a Taylor polynomial in that fixed point.                  *)
(*                                                                         *)
(* The script runs on the browser's single-threaded event loop: the module *)
(* body (construction, the first animate() call, addEventListener) is one  *)
(* task, and afterwards the loop runs one frame callback or one resize     *)
(* listener at a time.  pc is the statement about to execute ("idle" when  *)
(* the call stack is empty).                                               *)
(***************************************************************************)
EXTENDS Integers, Sequences, FiniteSets

(* ------------------------------ bounds --------------------------------- *)
\* Frame timestamps handed to animate are k * FrameStep ms, k in 1..MaxFrame.
MaxFrame == 4
FrameStep == 2617
\* Math.random is a generator with an unknown seed in 0..MaxSeed.
MaxSeed == 2

(* --------------------------- number model ------------------------------ *)
Unit == 10000
Pi == 31416
TwoPi == 2 * Pi
HalfPi == Pi \div 2

\* a * n / d, rounded towards zero
Scale(a, n, d) == IF a >= 0 THEN (a * n) \div d ELSE -(((-a) * n) \div d)

\* the JavaScript remainder a % b (sign of the dividend), b > 0
JsRem(a, b) == IF a >= 0 THEN a % b ELSE -((-a) % b)

Max(a, b) == IF a >= b THEN a ELSE b

\* sin y for 0 <= y <= pi/2:  y (1 - y^2/6 (1 - y^2/20 (1 - y^2/42 (1 - y^2/72))))
SinQ(y) ==
  LET y2 == (y * y) \div Unit
      p4 == Unit - (y2 \div 72)
      p3 == Unit - (((y2 * p4) \div Unit) \div 42)
      p2 == Unit - (((y2 * p3) \div Unit) \div 20)
      p1 == Unit - (((y2 * p2) \div Unit) \div 6)
  IN  (y * p1) \div Unit

\* Math.sin
Sin(x) ==
  LET r == x % TwoPi
  IN  IF r <= HalfPi THEN SinQ(r)
      ELSE IF r <= Pi THEN SinQ(Pi - r)
      ELSE IF r <= Pi + HalfPi THEN -SinQ(r - Pi)
      ELSE -SinQ(TwoPi - r)

\* Math.random: the k-th draw (k = 0, 1, ...) of the generator seeded with s,
\* a value in [0, 1)
Random(s, k) == (s * (4999 + 1237 * k)) % Unit

(* ------------------------- the environment ----------------------------- *)
\* window.innerWidth x window.innerHeight
Sizes == { <<800, 600>>, <<1920, 1080>>, <<600, 800>> }

Timestamps == { k * FrameStep : k \in 1..MaxFrame }

Aspect(size) == (size[1] * Unit) \div size[2]

(* ------------------------ scene construction --------------------------- *)
flareCount == 8
coronaCount == 4

FlareIds == 0..(flareCount - 1)
CoronaIds == 1..coronaCount

SunRenderOrder == 0 * Unit
WireRenderOrder == Unit \div 2
OcclusionRenderOrder == 1 * Unit
CoronaRenderOrder(i) == (2 + i) * Unit
\* mutant: flares numbered like the corona shells
FlareRenderOrderLow(i) == (2 + i) * Unit
FlareRenderOrder(i) == (10 + i) * Unit

CoronaRadius(i) == Unit + i * 1600
CoronaIntensity(i) == 14000 - i * 2800
\* mutant: the opacity clamped at 0
CoronaOpacityClamped(i) == Max(0, 2000 - i * 1100)
CoronaOpacity(i) == 2000 - i * 1100

Entity(kind, index, order) == [kind |-> kind, index |-> index, renderOrder |-> order]

\* the objects added to sunGroup, in the order of the sunGroup.add calls
SunGroupChildren ==
  << Entity("sun", 0, SunRenderOrder),
     Entity("wire", 0, WireRenderOrder),
     Entity("occlusion", 0, OcclusionRenderOrder) >>
  \o [i \in 1..coronaCount |-> Entity("corona", i, CoronaRenderOrder(i))]
  \o [j \in 1..flareCount |-> Entity("flare", j - 1, FlareRenderOrder(j - 1))]

CoronaShells ==
  [i \in CoronaIds |->
     [radius |-> CoronaRadius(i), intensity |-> CoronaIntensity(i),
      opacity |-> CoronaOpacity(i)]]

\* each loop iteration draws 9 random numbers; the material's opacity is the
\* 8th and userData.scale the 9th
FlareInitialOpacity(s, i) == 7000 + Scale(Random(s, 9 * i + 7), 3, 10)
FlareUserData(s, i) ==
  [phase |-> i * 15000, scale |-> Unit + Scale(Random(s, 9 * i + 8), 8, 10)]

(* ------------------------------ state ---------------------------------- *)
VARIABLES
  pc,            \* statement about to run; "idle": the call stack is empty
  ret,           \* where the running animate() returns to: "main" or "loop"
  t,             \* animate's parameter (ms) in the current / latest tick
  time,          \* animate's local const time
  rafQueue,      \* number of callbacks registered with requestAnimationFrame
  listening,     \* the resize listener is registered
  viewport,      \* window.innerWidth, window.innerHeight
  rendererSize,  \* the size given to renderer.setSize
  cameraAspect,  \* camera.aspect
  projAspect,    \* the aspect the camera's projection matrix was built from
  children,      \* sunGroup.children
  coronas,       \* the corona shells' radius, colour multiplier and opacity
  flares,        \* the flares array (flare indices, in push order)
  userData,      \* flare index -> userData {phase, scale}
  uniformTime,   \* sunMat.uniforms.time.value
  groupScale,    \* sunGroup.scale (setScalar: x = y = z)
  groupRotY,     \* sunGroup.rotation.y
  flareScale,    \* flare index -> flare.scale
  flareOpacity,  \* flare index -> flare.material.opacity
  log,           \* the statements the current / latest tick has executed
  rendered       \* what the latest renderer.render call drew (<<>> before)

vars == << pc, ret, t, time, rafQueue, listening, viewport, rendererSize,
           cameraAspect, projAspect, children, coronas, flares, userData,
           uniformTime, groupScale, groupRotY, flareScale, flareOpacity,
           log, rendered >>

sceneVars == << children, coronas, flares, userData >>
animVars == << uniformTime, groupScale, groupRotY, flareScale, flareOpacity >>
viewVars == << viewport, rendererSize, cameraAspect, projAspect >>

\* lines 5-155: the state when the module body reaches line 180
Init ==
  \E s \in 0..MaxSeed, size \in Sizes :
    /\ pc = "L180"
    /\ ret = "main"
    /\ t = 0
    /\ time = 0
    /\ rafQueue = 0
    /\ listening = FALSE
    /\ viewport = size
    /\ rendererSize = size
    /\ cameraAspect = Aspect(size)
    /\ projAspect = Aspect(size)
    /\ children = SunGroupChildren
    /\ coronas = CoronaShells
    /\ flares = [j \in 1..flareCount |-> j - 1]
    /\ userData = [i \in FlareIds |-> FlareUserData(s, i)]
    /\ uniformTime = 0
    /\ groupScale = Unit
    /\ groupRotY = 0
    /\ flareScale = [i \in FlareIds |-> Unit]
    /\ flareOpacity = [i \in FlareIds |-> FlareInitialOpacity(s, i)]
    /\ log = << >>
    /\ rendered = << >>

(* ------------------------------ animate -------------------------------- *)
\* mutant: the render call moved before the flare loop
animateBodyRenderEarly == << "L159", "L160", "L162", "L164", "L167", "L177", "L169", "L176" >>

\* the statements of animate's body, in source order
animateBody == << "L159", "L160", "L162", "L164", "L167", "L169", "L176", "L177" >>

Position(label) == CHOOSE k \in 1..Len(animateBody) : animateBody[k] = label

\* the statement after `label`; after the last one animate returns
After(label) ==
  IF Position(label) < Len(animateBody)
    THEN animateBody[Position(label) + 1]
    ELSE IF ret = "main" THEN "L183" ELSE "idle"

Step(label, name) ==
  /\ pc = label
  /\ pc' = After(label)
  /\ log' = Append(log, name)

\* line 160
TimeOf(ts) == ts * 5
\* line 164
Pulse(tm) == Unit + Scale(Sin(tm * 2), 2, 100)
\* line 167
RotationY(tm) == Scale(tm, 3, 10)
\* mutant: the flare's own phase offset is dropped
FlarePhaseNoOffset(tm, i) == JsRem(tm, TwoPi)
\* line 170
FlarePhase(tm, i) == JsRem(tm + userData[i].phase, TwoPi)
\* mutant: grow without Math.max(0, ...)
GrowUnclamped(phase) == Scale(Sin(phase * 2), 15, 10)
\* line 171
Grow(phase) == Max(0, Scale(Sin(phase * 2), 15, 10))
\* line 172
FlareScale(tm, i) == (Grow(FlarePhase(tm, i)) * userData[i].scale) \div Unit
\* mutant: the opacity eased from its current value
FlareOpacitySmoothed(tm, i) ==
  (flareOpacity[i] + 4000 + Scale(Sin(JsRem(tm + userData[i].phase, TwoPi) * 3), 6, 10)) \div 2
\* line 173
FlareOpacity(tm, i) == 4000 + Scale(Sin(FlarePhase(tm, i) * 3), 6, 10)

\* line 180: animate() with the parameter defaulting to 0
CallAnimate ==
  /\ pc = "L180"
  /\ pc' = animateBody[1]
  /\ ret' = "main"
  /\ t' = 0
  /\ log' = << >>
  /\ UNCHANGED << time, rafQueue, listening, rendered >>
  /\ UNCHANGED << sceneVars, animVars, viewVars >>

\* the frame scheduler runs the registered callback with the frame's timestamp
FrameCallback ==
  /\ pc = "idle"
  /\ rafQueue > 0
  /\ \E ts \in Timestamps :
       /\ ts >= t
       /\ t' = ts
  /\ rafQueue' = rafQueue - 1
  /\ pc' = animateBody[1]
  /\ ret' = "loop"
  /\ log' = << >>
  /\ UNCHANGED << time, listening, rendered >>
  /\ UNCHANGED << sceneVars, animVars, viewVars >>

\* mutant: animate calls itself instead of registering a callback
AnimateCallsItself ==
  /\ pc = "L159"
  /\ \E ts \in Timestamps : ts > t /\ t' = ts
  /\ pc' = "L159"
  /\ log' = << >>
  /\ UNCHANGED << ret, time, rafQueue, listening, rendered >>
  /\ UNCHANGED << sceneVars, animVars, viewVars >>

\* mutant: the callback is not registered again
NoReschedule ==
  /\ Step("L159", "requestAnimationFrame")
  /\ UNCHANGED << ret, t, time, rafQueue, listening, rendered >>
  /\ UNCHANGED << sceneVars, animVars, viewVars >>

\* line 159
RequestAnimationFrame ==
  /\ Step("L159", "requestAnimationFrame")
  /\ rafQueue' = rafQueue + 1
  /\ UNCHANGED << ret, t, time, listening, rendered >>
  /\ UNCHANGED << sceneVars, animVars, viewVars >>

\* line 160
ComputeTime ==
  /\ Step("L160", "time")
  /\ time' = TimeOf(t)
  /\ UNCHANGED << ret, t, rafQueue, listening, rendered >>
  /\ UNCHANGED << sceneVars, animVars, viewVars >>

\* line 162
WriteUniform ==
  /\ Step("L162", "uniform")
  /\ uniformTime' = time
  /\ UNCHANGED << ret, t, time, rafQueue, listening, rendered >>
  /\ UNCHANGED << groupScale, groupRotY, flareScale, flareOpacity >>
  /\ UNCHANGED << sceneVars, viewVars >>

\* lines 164-165
SetPulse ==
  /\ Step("L164", "pulse")
  /\ groupScale' = Pulse(time)
  /\ UNCHANGED << ret, t, time, rafQueue, listening, rendered >>
  /\ UNCHANGED << uniformTime, groupRotY, flareScale, flareOpacity >>
  /\ UNCHANGED << sceneVars, viewVars >>

\* line 167
SetRotation ==
  /\ Step("L167", "rotation")
  /\ groupRotY' = RotationY(time)
  /\ UNCHANGED << ret, t, time, rafQueue, listening, rendered >>
  /\ UNCHANGED << uniformTime, groupScale, flareScale, flareOpacity >>
  /\ UNCHANGED << sceneVars, viewVars >>

\* mutant: the loop stores the wrapped phase back into userData
UserDataPhaseStored ==
  [i \in FlareIds |-> [userData[i] EXCEPT !.phase = FlarePhase(time, i)]]

\* lines 169-174: flares.forEach; the loop only reads userData
UpdatedUserData == userData

UpdateFlares ==
  /\ Step("L169", "flares")
  /\ flareScale' =
       [i \in FlareIds |->
          IF \E k \in 1..Len(flares) : flares[k] = i
            THEN FlareScale(time, i) ELSE flareScale[i]]
  /\ flareOpacity' =
       [i \in FlareIds |->
          IF \E k \in 1..Len(flares) : flares[k] = i
            THEN FlareOpacity(time, i) ELSE flareOpacity[i]]
  /\ userData' = UpdatedUserData
  /\ UNCHANGED << ret, t, time, rafQueue, listening, rendered >>
  /\ UNCHANGED << uniformTime, groupScale, groupRotY >>
  /\ UNCHANGED << children, coronas, flares, viewVars >>

\* line 176
ControlsUpdate ==
  /\ Step("L176", "controls")
  /\ UNCHANGED << ret, t, time, rafQueue, listening, rendered >>
  /\ UNCHANGED << sceneVars, animVars, viewVars >>

\* what renderer.render(scene, camera) reads
Snapshot ==
  [ uniformTime |-> uniformTime, groupScale |-> groupScale,
    groupRotY |-> groupRotY, flareScale |-> flareScale,
    flareOpacity |-> flareOpacity, children |-> children,
    size |-> rendererSize, projAspect |-> projAspect, t |-> t ]

\* line 177
Render ==
  /\ Step("L177", "render")
  /\ rendered' = << Snapshot >>
  /\ UNCHANGED << ret, t, time, rafQueue, listening >>
  /\ UNCHANGED << sceneVars, animVars, viewVars >>

(* ------------------------------ resize --------------------------------- *)
\* line 183: window.addEventListener('resize', ...), the end of the module body
AddResizeListener ==
  /\ pc = "L183"
  /\ pc' = "idle"
  /\ listening' = TRUE
  /\ UNCHANGED << ret, t, time, rafQueue, log, rendered >>
  /\ UNCHANGED << sceneVars, animVars, viewVars >>

\* mutant: height over width
InvertedAspect(w, h) == (h * Unit) \div w
\* line 187
ResizedAspect(w, h) == (w * Unit) \div h

\* lines 183-189: the window takes a new size and the listener runs
Resize ==
  /\ pc = "idle"
  /\ listening
  /\ \E size \in Sizes :
       /\ viewport' = size
       /\ rendererSize' = size
       /\ cameraAspect' = ResizedAspect(size[1], size[2])
       /\ projAspect' = ResizedAspect(size[1], size[2])
  /\ UNCHANGED << pc, ret, t, time, rafQueue, listening, log, rendered >>
  /\ UNCHANGED << sceneVars, animVars >>

(* --------------------------- specification ----------------------------- *)
AnimateStep ==
  \/ RequestAnimationFrame
  \/ ComputeTime
  \/ WriteUniform
  \/ SetPulse
  \/ SetRotation
  \/ UpdateFlares
  \/ ControlsUpdate
  \/ Render

Next ==
  \/ CallAnimate
  \/ AddResizeListener
  \/ FrameCallback
  \/ AnimateStep
  \/ Resize

Spec == Init /\ [][Next]_vars

\* The module body and a running callback run to completion, and the frame
\* scheduler runs a registered callback at the next frame.
LiveSpec ==
  /\ Spec
  /\ WF_vars(CallAnimate)
  /\ WF_vars(AddResizeListener)
  /\ WF_vars(AnimateStep)
  /\ WF_vars(FrameCallback)

(* ------------------------------ claims --------------------------------- *)
TickLabels == { "L159", "L160", "L162", "L164", "L167", "L169", "L176", "L177" }
InTick == pc \in TickLabels
\* the latest tick has returned
TickDone == pc \in { "L183", "idle" }
Count(kind) == Cardinality({ k \in 1..Len(children) : children[k].kind = kind })
OrderOf(kind, index) ==
  { children[k].renderOrder :
      k \in { n \in 1..Len(children) :
                children[n].kind = kind /\ children[n].index = index } }

\* C1: in every reachable state the render orders are Sun Body 0, Wireframe
\* 0.5, Occlusion Shell 1, Corona Shell i 2+i (i = 1..4), Flare j 10+j
\* (j = 0..7); they are pairwise different and Sun Body < Wireframe <
\* Occlusion < every Corona Shell < every Flare.
C1_RenderOrder ==
  /\ OrderOf("sun", 0) = { 0 }
  /\ OrderOf("wire", 0) = { 5000 }
  /\ OrderOf("occlusion", 0) = { 10000 }
  /\ \A i \in 1..4 : OrderOf("corona", i) = { (2 + i) * 10000 }
  /\ \A j \in 0..7 : OrderOf("flare", j) = { (10 + j) * 10000 }
  /\ \A k, n \in 1..Len(children) :
       k # n => children[k].renderOrder # children[n].renderOrder
  /\ \A k, n \in 1..Len(children) :
       LET a == children[k]
           b == children[n]
       IN  /\ (a.kind = "sun" /\ b.kind = "wire") => a.renderOrder < b.renderOrder
           /\ (a.kind = "wire" /\ b.kind = "occlusion") => a.renderOrder < b.renderOrder
           /\ (a.kind = "occlusion" /\ b.kind = "corona") => a.renderOrder < b.renderOrder
           /\ (a.kind = "corona" /\ b.kind = "flare") => a.renderOrder < b.renderOrder

\* a state after several ticks and a resize that followed the latest render
C1_Witness ==
  /\ pc = "idle"
  /\ t = MaxFrame * FrameStep
  /\ rendered # << >>
  /\ rendered[1].size # rendererSize
  /\ Len(children) = 15

SceneCounts ==
  /\ Len(children) = 15
  /\ Count("sun") = 1
  /\ Count("wire") = 1
  /\ Count("occlusion") = 1
  /\ Count("corona") = 4
  /\ Count("flare") = 8
  /\ Len(flares) = 8
  /\ \A i \in 0..7 : userData[i].phase = i * 15000

\* C2: the Scene Group always holds 1 Sun Body, 1 Wireframe, 1 Occlusion
\* Shell, 4 Corona Shells and 8 Flares (15 children), the flares array has 8
\* elements, every flare's phase is index x 1.5, and no step of a tick or of a
\* resize changes the children, the corona shells, the flares array or a
\* flare's phase and baseScale.
C2_Membership ==
  /\ []SceneCounts
  /\ [][ /\ children' = children
         /\ coronas' = coronas
         /\ flares' = flares
         /\ userData' = userData ]_vars

\* a later tick has updated the flares and a resize has happened since
C2_Witness ==
  /\ pc = "idle"
  /\ t > 0
  /\ rendered # << >>
  /\ rendered[1].t = t
  /\ rendered[1].size # rendererSize
  /\ \E i \in FlareIds : flareScale[i] # Unit

\* C3 as stated: after the tick with t = 0, time and the time uniform are 0,
\* the pulse scale is 1.0, the y-rotation is 0 and every flare's scale is 0.
C3_Original ==
  pc = "L183" =>
    /\ time = 0
    /\ uniformTime = 0
    /\ groupScale = 10000
    /\ groupRotY = 0
    /\ \A i \in 0..7 : flareScale[i] = 0

\* C3 amended: after the tick with t = 0, time and the time uniform are 0,
\* the pulse scale is 1.0, the y-rotation is 0, the scale of flares 0, 2, 4, 6
\* is 0 and the scale of flares 1, 3, 5, 7 is positive.
C3_Amended ==
  pc = "L183" =>
    /\ t = 0
    /\ time = 0
    /\ uniformTime = 0
    /\ groupScale = 10000
    /\ groupRotY = 0
    /\ \A i \in { 0, 2, 4, 6 } : flareScale[i] = 0
    /\ \A i \in { 1, 3, 5, 7 } : flareScale[i] > 0

\* the first tick has rendered and left flare 1 (phase 1.5) with a positive scale
C3_Witness ==
  /\ pc = "L183"
  /\ rendered # << >>
  /\ rendered[1].t = 0
  /\ flareScale[1] > 0
  /\ flareScale[2] = 0

LoopChains == rafQueue + (IF InTick /\ log = << >> THEN 1 ELSE 0)

\* C5: from the first animate() call on there is exactly one pending-or-running
\* frame callback carrying the loop (never none, never two), the resize
\* listener registers none, and under a fair frame scheduler every tick is
\* followed by another tick, so ticks are executed infinitely often.
C5_LoopForever ==
  /\ [](pc # "L180" => (LoopChains = 1 /\ rafQueue <= 1))
  /\ [](TickDone => rafQueue = 1)
  /\ [][(pc = "idle" /\ pc' = "idle") => rafQueue' = rafQueue]_vars
  /\ (pc = "L177") ~> (pc = "L159")
  /\ []<>(pc = "L177")

\* a frame callback's tick has completed and its successor is pending
C5_Witness ==
  /\ pc = "idle"
  /\ ret = "loop"
  /\ t > 0
  /\ rafQueue = 1
  /\ log # << >>

TickOrder ==
  << "requestAnimationFrame", "time", "uniform", "pulse", "rotation",
     "flares", "controls", "render" >>

\* C6: the statements of a tick run in the order time, uniform, pulse scale,
\* y-rotation, flares, controls.update (once), renderer.render (once, last),
\* and what a render draws was written in that tick from its timestamp.
C6_StepOrder ==
  /\ Len(log) <= Len(TickOrder)
  /\ log = SubSeq(TickOrder, 1, Len(log))
  /\ TickDone => Tail(log) = << "time", "uniform", "pulse", "rotation",
                                "flares", "controls", "render" >>
  /\ rendered # << >> =>
       LET r == rendered[1]
           tm == r.t * 5
       IN  /\ r.uniformTime = tm
           /\ r.groupScale = Pulse(tm)
           /\ r.groupRotY = RotationY(tm)
           /\ \A i \in FlareIds :
                /\ r.flareScale[i] = FlareScale(tm, i)
                /\ r.flareOpacity[i] = FlareOpacity(tm, i)
  /\ (TickDone /\ rendered # << >>) => rendered[1].t = t

\* a later tick has rendered values that differ from the previous tick's
C6_Witness ==
  /\ pc = "idle"
  /\ t = 2 * FrameStep
  /\ rendered # << >>
  /\ rendered[1].t = t
  /\ rendered[1].uniformTime = 10 * FrameStep
  /\ log = TickOrder

\* C7: a resize sets the renderer size to the new (w, h) and the camera
\* aspect to w / h (4/3 for 800x600, 16/9 for 1920x1080) and changes nothing
\* of the scene: children, render orders, time uniform, group scale and
\* rotation, and every flare's scale, opacity, phase and baseScale.
C7_Resize ==
  [][ (pc = "idle" /\ pc' = "idle") =>
        /\ rendererSize' = viewport'
        /\ cameraAspect' = (viewport'[1] * 10000) \div viewport'[2]
        /\ viewport' = << 800, 600 >> => cameraAspect' = 13333
        /\ viewport' = << 1920, 1080 >> => cameraAspect' = 17777
        /\ UNCHANGED << children, coronas, flares, userData, uniformTime,
                        groupScale, groupRotY, flareScale, flareOpacity >>
    ]_vars

\* the view was rendered at 800x600 and has since been resized to 1920x1080
C7_Witness ==
  /\ pc = "idle"
  /\ rendered # << >>
  /\ rendered[1].size = << 800, 600 >>
  /\ rendered[1].projAspect = 13333
  /\ rendererSize = << 1920, 1080 >>
  /\ cameraAspect = 17777

FlaresUpdated == \E k \in 1..Len(log) : log[k] = "flares"

\* C8: every flare's scale is >= 0 in every reachable state; once a tick has
\* updated the flares, scale = max(0, sin(2 phase) * 1.5) * baseScale with
\* baseScale in [1.0, 1.8), which is 0 whenever sin(2 phase) <= 0.
C8_ScaleNonNegative ==
  /\ \A i \in FlareIds : flareScale[i] >= 0
  /\ \A i \in FlareIds : userData[i].scale >= 10000 /\ userData[i].scale < 18000
  /\ FlaresUpdated =>
       \A i \in FlareIds :
         LET phase == JsRem(time + userData[i].phase, TwoPi)
             s2 == Sin(phase * 2)
         IN  /\ s2 <= 0 => flareScale[i] = 0
             /\ s2 > 0 => flareScale[i] = (Scale(s2, 15, 10) * userData[i].scale) \div 10000

\* after a frame callback's tick some flare has sin(2 phase) < 0 and scale 0
\* while another has a positive scale
C8_Witness ==
  /\ pc = "idle"
  /\ t > 0
  /\ \E i \in FlareIds :
       /\ Sin(JsRem(time + userData[i].phase, TwoPi) * 2) < 0
       /\ flareScale[i] = 0
  /\ \E i \in FlareIds : flareScale[i] > 10000

\* C9: there are exactly 4 corona shells, i = 1..4, with radius 1.0 + 0.16 i,
\* intensity 1.4 - 0.28 i and opacity 0.2 - 0.11 i (0.09, -0.02, -0.13,
\* -0.24); radius increases and intensity and opacity decrease strictly with
\* i, the opacity is <= 0 for i >= 2, and no tick or resize changes them.
C9_Corona ==
  /\ DOMAIN coronas = 1..4
  /\ Count("corona") = 4
  /\ \A i \in 1..4 :
       /\ coronas[i].radius = 10000 + 1600 * i
       /\ coronas[i].intensity = 14000 - 2800 * i
       /\ coronas[i].opacity = 2000 - 1100 * i
  /\ << coronas[1].opacity, coronas[2].opacity, coronas[3].opacity,
        coronas[4].opacity >> = << 900, -200, -1300, -2400 >>
  /\ \A i \in 1..3 :
       /\ coronas[i].radius < coronas[i + 1].radius
       /\ coronas[i].intensity > coronas[i + 1].intensity
       /\ coronas[i].opacity > coronas[i + 1].opacity
  /\ \A i \in 2..4 : coronas[i].opacity <= 0

\* the shells after ticks and a resize
C9_Witness ==
  /\ pc = "idle"
  /\ t >= 2 * FrameStep
  /\ rendered # << >>
  /\ rendered[1].size # rendererSize
  /\ coronas[2].opacity < 0

\* the animated state as a function of the timestamp and the flares' userData
AnimatedAt(ts, ud) ==
  LET tm == ts * 5
  IN  [ uniformTime |-> tm,
        groupScale |-> 10000 + Scale(Sin(tm * 2), 2, 100),
        groupRotY |-> Scale(tm, 3, 10),
        flareScale |->
          [i \in FlareIds |->
             (Max(0, Scale(Sin(JsRem(tm + ud[i].phase, TwoPi) * 2), 15, 10))
                * ud[i].scale) \div 10000],
        flareOpacity |->
          [i \in FlareIds |->
             4000 + Scale(Sin(JsRem(tm + ud[i].phase, TwoPi) * 3), 6, 10)] ]

\* C10: after a tick with timestamp t the time uniform, the group scale and
\* y-rotation and each flare's scale and opacity are a function of t and the
\* flares' phase / baseScale alone: not of earlier timestamps, of the number
\* of ticks or resizes, or of the flares' construction-time opacity.
C10_Memoryless ==
  TickDone =>
    [ uniformTime |-> uniformTime, groupScale |-> groupScale,
      groupRotY |-> groupRotY, flareScale |-> flareScale,
      flareOpacity |-> flareOpacity ] = AnimatedAt(t, userData)

\* the tick with the largest timestamp has completed, after earlier ticks, and
\* has set some flare's opacity to a negative value
C10_Witness ==
  /\ pc = "idle"
  /\ t = MaxFrame * FrameStep
  /\ rendered # << >>
  /\ rendered[1].t = t
  /\ \E i \in FlareIds : flareOpacity[i] < 0

=============================================================================
